---- MODULE Spec2Model ----
(***************************************************************************)
(* Catalog service of the WhatsApp catalog backend: the /generate route,   *)
(* the two rendering engines of CatalogService (PDF and image grid), the   *)
(* image download helper, and the publication of the rendered artifact to  *)
(* the storage bucket and to the 'catalogs' collection.                    *)
(*                                                                         *)
(* The profile/product store, the HTTP servers behind the product image    *)
(* URLs, the bucket and the document store are external: what they answer  *)
(* is an input drawn at the step that calls them.                          *)
(***************************************************************************)
EXTENDS Integers, Sequences, FiniteSets, TLC

VARIABLES inv, response, blobs, catalogs, uuid_seq, doc_seq, mode,
          dlCall, nameCall, priceCall, gridCall, phoneCall,
          users, customers, shares, outbox, calls, contact_seq, twilio_client,
          bulk

\* the /generate route and the stores it writes
flowVars == <<inv, response, blobs, catalogs, uuid_seq, doc_seq, mode>>
\* the helpers applied on their own
helperVars == <<dlCall, nameCall, priceCall, gridCall, phoneCall>>
\* the customer and sharing routes and the stores they write
contactVars == <<users, customers, shares, outbox, calls, contact_seq, twilio_client>>

\* the bulk sharing routes
bulkVars == <<bulk>>

vars == <<flowVars, helperVars, contactVars, bulkVars>>

----------------------------------------------------------------------------
(* Bounds of the model *)

\* longest product list the stores answer with
MaxProducts == 3
\* product names run from the empty name to NameLimit + NameOver characters
NameOver == 2
\* every price from 0.00 to PriceRange hundredths is drawn
PriceRange == 120
\* longest product list answered while requests run side by side
ConcProducts == 1
\* customer and sharing requests handled in one behaviour
MaxCalls == 2
\* most products laid out on one image grid
MaxGrid == 7
\* most recipients of one bulk share
MaxRecipients == 3

\* the requests handled in one behaviour, in the order they arrive, and the
\* ids they carry
Arrival == <<"r1", "r2">>
Invs == {Arrival[k] : k \in 1..Len(Arrival)}
Position(r) == CHOOSE k \in 1..Len(Arrival) : Arrival[k] = r
Earlier(r) == {Arrival[k] : k \in 1..(Position(r) - 1)}
ArtisanIds == {"a1", "a2"}
CatalogTypes == {"pdf", "image", "docx"}
Urls == {"http://img/1"}

----------------------------------------------------------------------------
(* Strings as sequences of one-character strings *)

Str_image == <<"i", "m", "a", "g", "e">>
Str_Product == <<"P", "r", "o", "d", "u", "c", "t">>
Str_empty == <<>>
Ellipsis == <<".", ".", ".">>

UpperCase == <<"A", "E", "G", "I", "J", "M", "N", "P">>
LowerCase == <<"a", "e", "g", "i", "j", "m", "n", "p">>

\* str.lower(), one character
lower_char(c) ==
    IF \E k \in 1..Len(UpperCase) : UpperCase[k] = c
    THEN LowerCase[CHOOSE k \in 1..Len(UpperCase) : UpperCase[k] = c]
    ELSE c

\* str.lower()
lower(s) == [k \in 1..Len(s) |-> lower_char(s[k])]

\* the Python operator `sub in s` on strings
str_in(sub, s) ==
    \E k \in 1..(Len(s) - Len(sub) + 1) : SubSeq(s, k, k + Len(sub) - 1) = sub

\* the Python slice s[:n]
slice_to(s, n) == SubSeq(s, 1, IF Len(s) < n THEN Len(s) ELSE n)

----------------------------------------------------------------------------
(* CatalogService.download_image *)

Str_image_png == <<"i", "m", "a", "g", "e", "/", "p", "n", "g">>
Str_IMAGE_JPEG == <<"I", "M", "A", "G", "E", "/", "J", "P", "E", "G">>
Str_text_html == <<"t", "e", "x", "t", "/", "h", "t", "m", "l">>

\* the content-type header of a response: absent, or one of these values
ContentTypeHeaders ==
    {[present |-> FALSE, value |-> Str_empty]} \cup
    {[present |-> TRUE, value |-> v] :
        v \in {Str_image_png, Str_IMAGE_JPEG, Str_text_html}}

\* response bodies: no bytes, bytes that are a picture, bytes that are not
EmptyBytes == "b''"
Bodies == {EmptyBytes, "png_bytes", "corrupt_bytes"}
StatusCodes == {200, 404}

\* what requests.get can do: raise, or hand back a response
HttpOutcomes ==
    {[kind |-> k, status |-> 0, content_type |-> [present |-> FALSE, value |-> Str_empty],
      content |-> EmptyBytes] : k \in {"Timeout", "ConnectionError", "OtherError"}} \cup
    {[kind |-> "Response", status |-> st, content_type |-> ct, content |-> b] :
        st \in StatusCodes, ct \in ContentTypeHeaders, b \in Bodies}

None == [none |-> TRUE, bytes |-> EmptyBytes]
SomeBytes(b) == [none |-> FALSE, bytes |-> b]

\* Python truthiness of `img_data`: None and b'' are both falsy
truthy(v) == ~v.none /\ v.bytes # EmptyBytes

\* PIL can open the bytes as a picture
decodable(b) == b = "png_bytes"

\* headers.get('content-type', '')
header_get(h) == IF h.present THEN h.value ELSE Str_empty

\* the exception classes of the requests library that the handlers name
IsTimeout(exc) == exc = "Timeout"
IsRequestException(exc) == exc \in {"Timeout", "ConnectionError", "HTTPError"}

\* the try block of download_image: the exception it ends with ("" for none)
\* and the value it returns
download_image_try(http) ==
    IF http.kind = "Timeout" THEN [exc |-> "Timeout", value |-> None]
    ELSE IF http.kind = "ConnectionError" THEN [exc |-> "ConnectionError", value |-> None]
    ELSE IF http.kind = "OtherError" THEN [exc |-> "Exception", value |-> None]
    ELSE IF http.status >= 400 THEN [exc |-> "HTTPError", value |-> None]
    ELSE IF ~str_in(Str_image, lower(header_get(http.content_type)))
         THEN [exc |-> "", value |-> None]
    ELSE [exc |-> "", value |-> SomeBytes(http.content)]

\* a download_image whose last handler is missing
download_image_uncaught(url, http) ==
    LET t == download_image_try(http) IN
    IF t.exc = "" THEN [raised |-> FALSE, value |-> t.value]
    ELSE IF IsTimeout(t.exc) THEN [raised |-> FALSE, value |-> None]
    ELSE IF IsRequestException(t.exc) THEN [raised |-> FALSE, value |-> None]
    ELSE [raised |-> TRUE, value |-> None]

\* download_image: the try block and its three handlers
download_image(url, http) ==
    LET t == download_image_try(http) IN
    IF t.exc = "" THEN [raised |-> FALSE, value |-> t.value]
    ELSE IF IsTimeout(t.exc) THEN [raised |-> FALSE, value |-> None]
    ELSE IF IsRequestException(t.exc) THEN [raised |-> FALSE, value |-> None]
    ELSE [raised |-> FALSE, value |-> None]

----------------------------------------------------------------------------
(* The product name drawn in a cell of the image grid *)

NameLimit == 35

Alphabet == <<"a", "b", "c", "d", "e", "f", "g", "h", "i", "j", "k", "l", "m",
              "n", "o", "p", "q", "r", "s", "t", "u", "v", "w", "x", "y", "z">>

\* a name of n characters, no two neighbours alike
MkName(n) == [k \in 1..n |-> Alphabet[((k - 1) % Len(Alphabet)) + 1]]

\* a product's 'name' key: absent, or a string
NoName == [present |-> FALSE, value |-> Str_empty]
HasName(s) == [present |-> TRUE, value |-> s]

\* product.get('name', default)
name_get(name, default) == IF name.present THEN name.value ELSE default

\* a truncation that also marks a name of exactly NameLimit characters
product_name_off_by_one(name) ==
    LET shown == slice_to(name_get(name, Str_Product), NameLimit) IN
    IF Len(name_get(name, Str_empty)) >= NameLimit THEN shown \o Ellipsis ELSE shown

\* product_name as drawn: the first 35 characters, then '...' if it was longer
product_name(name) ==
    LET shown == slice_to(name_get(name, Str_Product), NameLimit) IN
    IF Len(name_get(name, Str_empty)) > NameLimit THEN shown \o Ellipsis ELSE shown

----------------------------------------------------------------------------
(* The price line of a product, in each engine *)

Digits == <<"0", "1", "2", "3", "4", "5", "6", "7", "8", "9">>
Rupee == <<"rupee_sign">>
Str_Price == <<"P", "r", "i", "c", "e", ":", " ">>

\* a product's 'price' key: absent, or a number of hundredths (a price with
\* at most two decimals, which the format prints without rounding)
NoPrice == [present |-> FALSE, cents |-> 0]
HasPrice(c) == [present |-> TRUE, cents |-> c]

\* product.get('price', 0)
price_get(price) == IF price.present THEN price.cents ELSE 0

\* the decimal digits of n
RECURSIVE decimal(_)
decimal(n) == IF n < 10 THEN <<Digits[n + 1]>>
              ELSE decimal(n \div 10) \o <<Digits[(n % 10) + 1]>>

\* the ',' option of the format: the integer part in groups of three
RECURSIVE grouped(_)
grouped(n) ==
    IF n < 1000 THEN decimal(n)
    ELSE grouped(n \div 1000) \o <<",">> \o
         <<Digits[((n % 1000) \div 100) + 1], Digits[((n % 100) \div 10) + 1],
           Digits[(n % 10) + 1]>>

\* a format without the ',' option
format_price_ungrouped(cents) ==
    decimal(cents \div 100) \o <<".">> \o
    <<Digits[((cents % 100) \div 10) + 1], Digits[(cents % 10) + 1]>>

\* the format spec ',.2f'
format_price(cents) ==
    grouped(cents \div 100) \o <<".">> \o
    <<Digits[((cents % 100) \div 10) + 1], Digits[(cents % 10) + 1]>>

\* PDF engine: f"Price: ₹{price:,.2f}"
pdf_price_text(price) == Str_Price \o Rupee \o format_price(price_get(price))

\* image engine: f"₹{price:,.2f}"
image_price_text(price) == Rupee \o format_price(price_get(price))

----------------------------------------------------------------------------
(* Products and what the profile/product store answers *)

Str_Unnamed == <<"U", "n", "n", "a", "m", "e", "d", " ", "P", "r", "o", "d", "u", "c", "t">>
NoUrl == ""

\* a product document: image_url is NoUrl when neither 'image_url' nor
\* 'imageUrl' holds a non-empty string.  The products of a request all
\* carry one over-long name; the names of every length are drawn where the
\* name is rendered on its own (SpecHelpers).
ProductKinds ==
    {[image_url |-> u, name |-> HasName(MkName(NameLimit + 1))] :
        u \in {NoUrl} \cup Urls}

ProductLists == UNION {[1..k -> ProductKinds] : k \in 0..MaxProducts}

\* profiles/{artisan_id} is missing, is found (with the products of the
\* query on artisan_id), or the store raises
StoreAnswers ==
    {[profile |-> p, products |-> <<>>] : p \in {"missing", "error"}} \cup
    {[profile |-> "found", products |-> ps] : ps \in ProductLists}

----------------------------------------------------------------------------
(* Exceptions: the class and what it is about *)

NoExc == [type |-> "", cause |-> ""]
Raise(t, c) == [type |-> t, cause |-> c]
raised(e) == e.type # ""

\* `except Exception as e: raise Exception(f"Error fetching data: ...")`
get_artisan_products_except(e) == Raise("Exception", e.cause)

\* get_artisan_products: the try block, then the handler around it
get_artisan_products(answer) ==
    LET try ==
            IF answer.profile = "error"
            THEN [exc |-> Raise("GoogleAPIError", "store_error"), products |-> <<>>]
            ELSE IF answer.profile = "missing"
            THEN [exc |-> Raise("ValueError", "artisan_not_found"), products |-> <<>>]
            ELSE [exc |-> NoExc, products |-> answer.products]
    IN  IF raised(try.exc)
        THEN [exc |-> get_artisan_products_except(try.exc), products |-> <<>>]
        ELSE try

\* a check that lets an empty list through
no_products_never(products) == FALSE

\* `if not products`
no_products(products) == Len(products) = 0

\* `except Exception as e: raise Exception(f"Error generating ...")`, the last
\* lines of generate_pdf_catalog and of generate_image_catalog
generate_except(e) == Raise("Exception", e.cause)

\* a route that answers every failure as 'not found'
generate_catalog_except_not_found(e) == IF e.type = "ValueError" THEN 404 ELSE 404

\* the two handlers of the /generate route: the HTTP status they answer with
generate_catalog_except(e) == IF e.type = "ValueError" THEN 404 ELSE 500

----------------------------------------------------------------------------
(* The image grid *)

products_per_row == 2
product_height == 450
header_height == 150
img_width == 1200
x_offset == 50
col_width == 550
y_offset == header_height + 30

\* a row count that rounds down and adds one
rows_extra(n) == (n \div products_per_row) + 1

\* rows = (len(products) + products_per_row - 1) // products_per_row
rows(n) == (n + products_per_row - 1) \div products_per_row

\* the canvas of Image.new
canvas_for(n) ==
    [width |-> img_width, height |-> header_height + (rows(n) * product_height)]

NoCanvas == [width |-> 0, height |-> 0]

\* a placement that starts a new row one product early
grid_cell_shifted(idx) ==
    LET col == idx % products_per_row
        row == (idx + 1) \div products_per_row
    IN  [col |-> col, row |-> row,
         x_pos |-> x_offset + (col * col_width),
         y_pos |-> y_offset + (row * product_height)]

\* col, row, x_pos and y_pos of product idx (0-based)
grid_cell(idx) ==
    LET col == idx % products_per_row
        row == idx \div products_per_row
    IN  [col |-> col, row |-> row,
         x_pos |-> x_offset + (col * col_width),
         y_pos |-> y_offset + (row * product_height)]

\* card_x = x_pos - 10, card_y = y_pos - 10
card_margin == 10
card_width == 530
card_height == 420
\* prod_img.thumbnail((280, 280)), and the side of the placeholder
thumb_side == 280
\* img_x = x_pos + (510 - prod_img.width) // 2
image_box == 510

\* rectangles hold the first and the last pixel of each axis
\* a card as wide as the pitch of the columns plus its margin
card_rect_wide(cell) ==
    [x0 |-> cell.x_pos - card_margin, y0 |-> cell.y_pos - card_margin,
     x1 |-> cell.x_pos - card_margin + col_width + card_margin,
     y1 |-> cell.y_pos - card_margin + card_height]

\* draw.rectangle([(card_x, card_y), (card_x + card_width, card_y + card_height)])
card_rect(cell) ==
    [x0 |-> cell.x_pos - card_margin, y0 |-> cell.y_pos - card_margin,
     x1 |-> cell.x_pos - card_margin + card_width,
     y1 |-> cell.y_pos - card_margin + card_height]

\* a / b rounded to the nearest integer, and at least 1
round_aspect(a, b) ==
    LET q == ((2 * a) + b) \div (2 * b) IN IF q < 1 THEN 1 ELSE q

\* Image.thumbnail((280, 280)): a picture that fits keeps its size, a larger
\* one is scaled so that its longer side is 280 and its proportions stay
thumbnail(size) ==
    IF size.width <= thumb_side /\ size.height <= thumb_side THEN size
    ELSE IF size.width <= size.height
    THEN [width |-> round_aspect(thumb_side * size.width, size.height),
          height |-> thumb_side]
    ELSE [width |-> thumb_side,
          height |-> round_aspect(thumb_side * size.height, size.width)]

\* catalog_img.paste(prod_img, (img_x, y_pos))
picture_rect(cell, size) ==
    LET t == thumbnail(size)
        img_x == cell.x_pos + ((image_box - t.width) \div 2)
    IN  [x0 |-> img_x, y0 |-> cell.y_pos,
         x1 |-> img_x + t.width - 1, y1 |-> cell.y_pos + t.height - 1]

\* draw.rectangle([(x_pos, y_pos), (x_pos + 280, y_pos + 280)])
placeholder_rect(cell) ==
    [x0 |-> cell.x_pos, y0 |-> cell.y_pos,
     x1 |-> cell.x_pos + thumb_side, y1 |-> cell.y_pos + thumb_side]

----------------------------------------------------------------------------
(* The picture of one product, in each engine *)

\* a loop that asks for a picture whatever the product holds
has_image_url_always(product) == TRUE

\* `if image_url:` on product.get('image_url')
has_image_url(product) == product.image_url # NoUrl

\* an image block whose decoding is outside the try block
pdf_image_block_unguarded(product, http) ==
    IF ~has_image_url(product) THEN [raised |-> FALSE, picture |-> "none"]
    ELSE LET d == download_image(product.image_url, http) IN
         IF d.raised THEN [raised |-> FALSE, picture |-> "omitted"]
         ELSE IF ~truthy(d.value) THEN [raised |-> FALSE, picture |-> "omitted"]
         ELSE IF ~decodable(d.value.bytes) THEN [raised |-> TRUE, picture |-> "omitted"]
         ELSE [raised |-> FALSE, picture |-> "image"]

\* PDF engine: download, open, verify and embed inside try/except; the
\* handler only prints
pdf_image_block(product, http) ==
    IF ~has_image_url(product) THEN [raised |-> FALSE, picture |-> "none"]
    ELSE LET d == download_image(product.image_url, http) IN
         IF d.raised THEN [raised |-> FALSE, picture |-> "omitted"]
         ELSE IF ~truthy(d.value) THEN [raised |-> FALSE, picture |-> "omitted"]
         ELSE IF ~decodable(d.value.bytes) THEN [raised |-> FALSE, picture |-> "omitted"]
         ELSE [raised |-> FALSE, picture |-> "image"]

\* image engine: download, open, convert, resize and paste inside
\* try/except; the handler draws the 'No Image' placeholder
image_cell_picture(product, http) ==
    IF ~has_image_url(product) THEN [raised |-> FALSE, picture |-> "none"]
    ELSE LET d == download_image(product.image_url, http) IN
         IF d.raised THEN [raised |-> FALSE, picture |-> "placeholder"]
         ELSE IF ~truthy(d.value) THEN [raised |-> FALSE, picture |-> "none"]
         ELSE IF ~decodable(d.value.bytes) THEN [raised |-> FALSE, picture |-> "placeholder"]
         ELSE [raised |-> FALSE, picture |-> "image"]

\* a count of the pictures that made it into the artifact
product_count_pictures(products, cells) ==
    Cardinality({k \in 1..Len(cells) : cells[k].picture = "image"})

\* 'product_count': len(products)
product_count(products, cells) == Len(products)

----------------------------------------------------------------------------
(* State *)

\* the locals of a request that is not running
Idle ==
    [pc |-> "idle", artisan_id |-> "", catalog_type |-> "", profile |-> "",
     n |-> 0, products |-> <<>>, idx |-> 0, cells |-> <<>>, canvas |-> NoCanvas,
     filename |-> <<>>, catalog_url |-> <<>>, uploads |-> 0, saves |-> 0,
     fetched |-> <<>>]

NoResponse == [status |-> 0, detail |-> "", body |-> [success |-> FALSE]]

\* blob.public_url
public_url(filename) == <<"https://storage/">> \o filename

Extension(catalog_type) == IF catalog_type = "pdf" THEN ".pdf" ELSE ".png"
MimeType(catalog_type) == IF catalog_type = "pdf" THEN "application/pdf" ELSE "image/png"

\* uuid.uuid4(): a value no earlier call returned
uuid4(seq) == seq + 1

\* a file name made of the artisan and the type only
filename_without_uuid(artisan_id, uuid, catalog_type) ==
    <<"catalogs/", artisan_id, 0, Extension(catalog_type)>>

\* f"catalogs/{artisan_id}_{uuid.uuid4()}.pdf", and .png
filename_for(artisan_id, uuid, catalog_type) ==
    <<"catalogs/", artisan_id, uuid, Extension(catalog_type)>>

\* a document id that is the same for every catalog
auto_id_fixed(seq) == 1

\* db.collection('catalogs').document(): an id no earlier call returned
auto_id(seq) == seq + 1

\* a handler that deletes the uploaded blob when the metadata write fails
blobs_after_rollback(bs, filename) ==
    [f \in DOMAIN bs \ {filename} |-> bs[f]]

\* the bucket after the engine's `except` handler ran: the handler prints
\* and re-raises, the uploaded blob stays
blobs_after_except(bs, filename) == bs

\* no request yet, the bucket and 'catalogs' empty
FlowStart ==
    /\ inv = [r \in Invs |-> Idle]
    /\ response = [r \in Invs |-> NoResponse]
    /\ blobs = <<>>
    /\ catalogs = <<>>
    /\ uuid_seq = 0
    /\ doc_seq = 0

\* one worker on one event loop: a handler that never awaits between its
\* store calls runs to its end before the next request is taken
OneWorker == [concurrent |-> FALSE, longest_list |-> MaxProducts]

\* several workers: the requests are taken as they come and their store
\* calls interleave
ManyWorkers == [concurrent |-> TRUE, longest_list |-> ConcProducts]

\* no helper is applied on its own
DownloadOff ==
    dlCall = [phase |-> "off", url |-> "", http |-> CHOOSE h \in HttpOutcomes : TRUE,
              raised |-> FALSE, value |-> None]
NameOff == nameCall = [phase |-> "off", name |-> NoName, shown |-> Str_empty]
PriceOff ==
    priceCall = [phase |-> "off", price |-> NoPrice, pdf_text |-> Str_empty,
                 image_text |-> Str_empty]

GridOff ==
    gridCall = [phase |-> "off", n |-> 0, size |-> [width |-> 0, height |-> 0],
                canvas |-> NoCanvas, cards |-> <<>>, pictures |-> <<>>,
                placeholders |-> <<>>]
PhoneOff == phoneCall = [phase |-> "off", phone_number |-> <<>>, to |-> <<>>,
                         stored |-> <<>>]

\* no customer or sharing request, and none of their documents
\* no bulk share is running
NoCustomerData == [bound |-> FALSE, name |-> "", phone_number |-> <<>>]
BulkOff ==
    bulk = [pc |-> "off", route |-> "", artisan_id |-> "", inputs |-> <<>>,
            idx |-> 0, results |-> <<>>, customer_data |-> NoCustomerData,
            accepted |-> <<>>, status |-> 0, total |-> 0, sent |-> 0, failed |-> 0]

Calls == 1..MaxCalls
IdleCall ==
    [pc |-> "idle", route |-> "", artisan_id |-> "", phone |-> <<>>,
     exists |-> FALSE, sets |-> 0, status |-> 0, detail |-> ""]
NoContacts ==
    /\ customers = <<>>
    /\ shares = <<>>
    /\ outbox = <<>>
    /\ calls = [k \in Calls |-> IdleCall]
    /\ contact_seq = 0
ContactsOff ==
    /\ users = {}
    /\ twilio_client = FALSE
    /\ NoContacts

Init ==
    /\ FlowStart
    /\ mode = OneWorker
    /\ DownloadOff
    /\ NameOff
    /\ PriceOff
    /\ GridOff
    /\ PhoneOff
    /\ ContactsOff
    /\ BulkOff

\* the request is over: the handler's locals are gone, what stays is what
\* the request was (ids, length of the list, counts of store calls)
Gone(l) ==
    [l EXCEPT !.pc = "responded", !.products = <<>>, !.idx = 0, !.cells = <<>>,
              !.canvas = NoCanvas, !.filename = <<>>, !.catalog_url = <<>>,
              !.fetched = <<>>]

\* an exception raised inside the try block of generate_*_catalog: it is
\* re-raised by the engine's handler and answered by the route's handlers
Fails(r, l, e) ==
    LET outer == generate_except(e) IN
    /\ inv' = [inv EXCEPT ![r] = Gone(l)]
    /\ response' = [response EXCEPT ![r] =
            [status |-> generate_catalog_except(outer), detail |-> outer.cause,
             body |-> [success |-> FALSE]]]

----------------------------------------------------------------------------
(* POST /generate *)

\* generate_catalog, up to the call of an engine.  A catalog_type that is
\* neither 'pdf' nor 'image' raises HTTPException(400) inside the route's
\* own try block.
Request(r) ==
    /\ inv[r].pc = "idle"
    /\ ~mode.concurrent => \A q \in Earlier(r) : inv[q].pc = "responded"
    /\ \E a \in ArtisanIds, t \in CatalogTypes :
        LET l == [inv[r] EXCEPT !.artisan_id = a, !.catalog_type = t] IN
        IF t \in {"pdf", "image"}
        THEN /\ inv' = [inv EXCEPT ![r] = [l EXCEPT !.pc = "fetch"]]
             /\ UNCHANGED response
        ELSE /\ inv' = [inv EXCEPT ![r] = Gone(l)]
             /\ response' = [response EXCEPT ![r] =
                    [status |-> generate_catalog_except(Raise("HTTPException", "invalid_type")),
                     detail |-> "invalid_type", body |-> [success |-> FALSE]]]
    /\ UNCHANGED <<blobs, catalogs, uuid_seq, doc_seq, mode, helperVars, contactVars, bulkVars>>

\* generate_*_catalog: get_artisan_products, the check of the list, and for
\* the image engine the canvas
Assemble(r) ==
    /\ inv[r].pc = "fetch"
    /\ \E answer \in {a \in StoreAnswers : Len(a.products) <= mode.longest_list} :
        LET got == get_artisan_products(answer)
            l == [inv[r] EXCEPT !.profile = answer.profile, !.n = Len(got.products)]
        IN  IF raised(got.exc) THEN Fails(r, l, got.exc)
            ELSE IF no_products(got.products)
            THEN Fails(r, l, Raise("ValueError", "no_products"))
            ELSE /\ inv' = [inv EXCEPT ![r] =
                        [l EXCEPT !.pc = "render", !.products = got.products,
                                  !.canvas = IF l.catalog_type = "image"
                                             THEN canvas_for(Len(got.products))
                                             ELSE NoCanvas]]
                 /\ UNCHANGED response
    /\ UNCHANGED <<blobs, catalogs, uuid_seq, doc_seq, mode, helperVars, contactVars, bulkVars>>

\* requests.get is called only for a product that has an image URL
FetchOutcomes(product) ==
    IF ~has_image_url(product) THEN {CHOOSE h \in HttpOutcomes : h.kind = "Timeout"}
    ELSE HttpOutcomes

\* one turn of the loop over the products: the heading or card, the picture,
\* the text
RenderProduct(r) ==
    /\ inv[r].pc = "render"
    /\ inv[r].idx < Len(inv[r].products)
    /\ \E http \in FetchOutcomes(inv[r].products[inv[r].idx + 1]) :
        LET product == inv[r].products[inv[r].idx + 1]
            l == [inv[r] EXCEPT !.fetched = IF has_image_url(product)
                                            THEN Append(@, inv[r].idx + 1) ELSE @]
            pic == IF l.catalog_type = "pdf"
                   THEN pdf_image_block(product, http)
                   ELSE image_cell_picture(product, http)
            at == IF l.catalog_type = "pdf"
                  THEN [col |-> 0, row |-> 0, x_pos |-> 0, y_pos |-> 0]
                  ELSE grid_cell(l.idx)
            cell == [number |-> l.idx + 1, col |-> at.col, row |-> at.row,
                     x_pos |-> at.x_pos, y_pos |-> at.y_pos,
                     has_url |-> product.image_url # NoUrl,
                     picture |-> pic.picture,
                     name |-> IF l.catalog_type = "pdf"
                              THEN name_get(product.name, Str_Unnamed)
                              ELSE product_name(product.name)]
        IN  IF pic.raised
            THEN Fails(r, l, Raise("Exception", "image_error"))
            ELSE /\ inv' = [inv EXCEPT ![r] =
                        [l EXCEPT !.idx = l.idx + 1, !.cells = Append(l.cells, cell)]]
                 /\ UNCHANGED response
    /\ UNCHANGED <<blobs, catalogs, uuid_seq, doc_seq, mode, helperVars, contactVars, bulkVars>>

\* some product that has an image URL was rendered without its picture
broken_picture(cells) ==
    \E k \in 1..Len(cells) : cells[k].has_url /\ cells[k].picture # "image"

\* after the loop: serialise, name the file with a fresh uuid4, upload it and
\* make it public
Upload(r) ==
    /\ inv[r].pc = "render"
    /\ inv[r].idx = Len(inv[r].products)
    /\ uuid_seq' = uuid4(uuid_seq)
    /\ \E outcome \in {"ok", "upload_error", "make_public_error"} :
        LET l == [inv[r] EXCEPT !.uploads = @ + 1]
            filename == filename_for(l.artisan_id, uuid_seq', l.catalog_type)
            blob == [content_type |-> MimeType(l.catalog_type), rendered_by |-> r,
                     products |-> Len(l.cells), all_pictures |-> ~broken_picture(l.cells),
                     public |-> outcome = "ok"]
        IN  /\ blobs' = IF outcome = "upload_error" THEN blobs
                        ELSE (filename :> blob) @@ blobs
            /\ IF outcome = "ok"
               THEN /\ inv' = [inv EXCEPT ![r] =
                            [l EXCEPT !.pc = "save", !.filename = filename,
                                      !.catalog_url = public_url(filename)]]
                    /\ UNCHANGED response
               ELSE Fails(r, l, Raise("GoogleAPIError", outcome))
    /\ UNCHANGED <<catalogs, doc_seq, mode, helperVars, contactVars, bulkVars>>

\* the 'catalogs' document, and the result handed back through the route
SaveMetadata(r) ==
    /\ inv[r].pc = "save"
    /\ doc_seq' = auto_id(doc_seq)
    /\ \E outcome \in {"ok", "set_error"} :
        LET l == [inv[r] EXCEPT !.saves = @ + 1]
            catalog_data ==
                [id |-> doc_seq', artisan_id |-> l.artisan_id,
                 type |-> l.catalog_type, url |-> l.catalog_url,
                 product_count |-> product_count(l.products, l.cells),
                 storage_path |-> l.filename]
        IN  IF outcome = "ok"
            THEN /\ catalogs' = (doc_seq' :> catalog_data) @@ catalogs
                 /\ inv' = [inv EXCEPT ![r] = Gone(l)]
                 /\ response' = [response EXCEPT ![r] =
                        [status |-> 200, detail |-> "",
                         body |-> [success |-> TRUE, catalog_url |-> l.catalog_url,
                                   catalog_id |-> doc_seq',
                                   product_count |-> product_count(l.products, l.cells)]]]
                 /\ UNCHANGED blobs
            ELSE /\ UNCHANGED catalogs
                 /\ blobs' = blobs_after_except(blobs, l.filename)
                 /\ Fails(r, l, Raise("GoogleAPIError", outcome))
    /\ UNCHANGED <<uuid_seq, mode, helperVars, contactVars, bulkVars>>

Next ==
    \E r \in Invs :
        \/ Request(r)
        \/ Assemble(r)
        \/ RenderProduct(r)
        \/ Upload(r)
        \/ SaveMetadata(r)

Spec == Init /\ [][Next]_vars

InitConc ==
    /\ FlowStart
    /\ mode = ManyWorkers
    /\ DownloadOff
    /\ NameOff
    /\ PriceOff
    /\ GridOff
    /\ PhoneOff
    /\ ContactsOff
    /\ BulkOff

\* the same route served by several workers
SpecConc == InitConc /\ [][Next]_vars

----------------------------------------------------------------------------
(* The helpers on their own: the inputs are drawn at the start, a step      *)
(* applies the helper to them                                               *)

NameInputs == {NoName} \cup {HasName(MkName(n)) : n \in 0..(NameLimit + NameOver)}

InitHelpers ==
    /\ FlowStart
    /\ mode = OneWorker
    /\ PriceOff
    /\ GridOff
    /\ PhoneOff
    /\ ContactsOff
    /\ BulkOff
    /\ \E u \in Urls, h \in HttpOutcomes :
        dlCall = [phase |-> "ready", url |-> u, http |-> h, raised |-> FALSE, value |-> None]
    /\ \E nm \in NameInputs :
        nameCall = [phase |-> "ready", name |-> nm, shown |-> Str_empty]

CallDownloadImage ==
    /\ dlCall.phase = "ready"
    /\ LET d == download_image(dlCall.url, dlCall.http) IN
       dlCall' = [dlCall EXCEPT !.phase = IF d.raised THEN "raised" ELSE "returned",
                                !.raised = d.raised, !.value = d.value]
    /\ UNCHANGED <<flowVars, nameCall, priceCall, gridCall, phoneCall, contactVars, bulkVars>>

CallProductName ==
    /\ nameCall.phase = "ready"
    /\ nameCall' = [nameCall EXCEPT !.phase = "returned",
                                   !.shown = product_name(nameCall.name)]
    /\ UNCHANGED <<flowVars, dlCall, priceCall, gridCall, phoneCall, contactVars, bulkVars>>

NextHelpers == CallDownloadImage \/ CallProductName

SpecHelpers == InitHelpers /\ [][NextHelpers]_vars

\* the prices drawn: every price up to PriceRange hundredths, and prices
\* around each power of a thousand
PriceSamples ==
    {99999, 100000, 100001, 123450, 999999, 1000000, 1234567, 99999999,
     100000000, 100000001, 123456789, 2000000000}
PriceInputs ==
    {NoPrice} \cup {HasPrice(c) : c \in (0..PriceRange) \cup PriceSamples}

InitPrice ==
    /\ FlowStart
    /\ mode = OneWorker
    /\ DownloadOff
    /\ NameOff
    /\ GridOff
    /\ PhoneOff
    /\ ContactsOff
    /\ BulkOff
    /\ \E p \in PriceInputs :
        priceCall = [phase |-> "ready", price |-> p, pdf_text |-> Str_empty,
                     image_text |-> Str_empty]

CallPriceText ==
    /\ priceCall.phase = "ready"
    /\ priceCall' = [priceCall EXCEPT !.phase = "returned",
                                     !.pdf_text = pdf_price_text(priceCall.price),
                                     !.image_text = image_price_text(priceCall.price)]
    /\ UNCHANGED <<flowVars, dlCall, nameCall, gridCall, phoneCall, contactVars, bulkVars>>

NextPrice == CallPriceText

SpecPrice == InitPrice /\ [][NextPrice]_vars

\* the grids drawn: every product count up to MaxGrid, with pictures that
\* fit the thumbnail box and pictures that are scaled into it
PictureSides == {1, 100, 280, 281, 1000}
PictureSizes == {[width |-> w, height |-> h] : w \in PictureSides, h \in PictureSides}

InitGrid ==
    /\ FlowStart
    /\ mode = OneWorker
    /\ DownloadOff
    /\ NameOff
    /\ PriceOff
    /\ PhoneOff
    /\ ContactsOff
    /\ BulkOff
    /\ \E n \in 1..MaxGrid, size \in PictureSizes :
        gridCall = [phase |-> "ready", n |-> n, size |-> size, canvas |-> NoCanvas,
                    cards |-> <<>>, pictures |-> <<>>, placeholders |-> <<>>]

\* the canvas, and for each product of the loop its card, its picture and
\* the placeholder drawn instead
CallGrid ==
    /\ gridCall.phase = "ready"
    /\ gridCall' =
        [gridCall EXCEPT
            !.phase = "returned",
            !.canvas = canvas_for(gridCall.n),
            !.cards = [k \in 1..gridCall.n |-> card_rect(grid_cell(k - 1))],
            !.pictures = [k \in 1..gridCall.n |->
                            picture_rect(grid_cell(k - 1), gridCall.size)],
            !.placeholders = [k \in 1..gridCall.n |->
                            placeholder_rect(grid_cell(k - 1))]]
    /\ UNCHANGED <<flowVars, dlCall, nameCall, priceCall, phoneCall, contactVars, bulkVars>>

NextGrid == CallGrid

SpecGrid == InitGrid /\ [][NextGrid]_vars

----------------------------------------------------------------------------
(* Customer contacts and sharing: POST /customers/{artisan_id},             *)
(* POST /webhook/twilio and POST /share-whatsapp                            *)

Str_whatsapp == <<"w", "h", "a", "t", "s", "a", "p", "p", ":">>
Str_plus == <<"+">>
Str_plus91 == <<"+", "9", "1">>
Number_A == <<"9", "8", "7", "6", "5", "4", "3", "2", "1", "0">>
Number_B == <<"9", "8", "7", "6", "5", "4", "3", "2", "1", "1">>

\* str.startswith(prefix)
startswith(s, prefix) ==
    Len(s) >= Len(prefix) /\ SubSeq(s, 1, Len(prefix)) = prefix

\* str.replace(old, '')
RECURSIVE replace_by_empty(_, _)
replace_by_empty(s, old) ==
    IF s = <<>> THEN <<>>
    ELSE IF startswith(s, old)
    THEN replace_by_empty(SubSeq(s, Len(old) + 1, Len(s)), old)
    ELSE <<Head(s)>> \o replace_by_empty(Tail(s), old)

\* str.lstrip(chars) for one character
RECURSIVE lstrip(_, _)
lstrip(s, c) == IF s # <<>> /\ Head(s) = c THEN lstrip(Tail(s), c) ELSE s

\* str.rstrip(chars) for one character
RECURSIVE rstrip(_, _)
rstrip(s, c) ==
    IF s # <<>> /\ s[Len(s)] = c THEN rstrip(SubSeq(s, 1, Len(s) - 1), c) ELSE s

\* str.strip(): the blanks at both ends
strip(s) == rstrip(lstrip(s, " "), " ")

\* `if len(v) < 10`
MinPhoneLen == 10

\* AddCustomerRequest.validate_phone
validate_phone(phone_number) ==
    LET v1 == strip(phone_number)
        v2 == IF startswith(v1, Str_whatsapp)
              THEN replace_by_empty(v1, Str_whatsapp) ELSE v1
        v3 == IF ~startswith(v2, Str_plus)
              THEN Str_plus91 \o lstrip(v2, "0") ELSE v2
    IN  [raised |-> Len(v3) < MinPhoneLen, value |-> v3]

\* twilio_webhook: the phone number taken from the form field From
webhook_phone(from_number) ==
    LET phone == strip(replace_by_empty(from_number, Str_whatsapp)) IN
    IF ~startswith(phone, Str_plus)
    THEN Str_plus91 \o lstrip(phone, "0") ELSE phone

\* send_catalog: the country code is added before the prefix is looked for
send_catalog_phone(phone_number) ==
    LET p1 == IF ~startswith(phone_number, Str_plus)
              THEN Str_plus91 \o lstrip(phone_number, "0") ELSE phone_number
    IN  IF startswith(p1, Str_whatsapp)
        THEN replace_by_empty(p1, Str_whatsapp) ELSE p1

\* the artisan the webhook files every sender under
test_artisan == "test_artisan_1"
ContactArtisans == {test_artisan, "a1"}

\* phone numbers as they arrive in the body of add_customer and of
\* share_whatsapp
RequestPhones ==
    {Str_plus91 \o Number_A, Number_A, <<" ", "0">> \o Number_A \o <<" ">>,
     Str_plus91 \o Number_B, <<"1", "2", "3">>}

\* the form field From as the gateway sends it, and no such field
NoFrom == <<>>
FromNumbers ==
    {Str_whatsapp \o Str_plus91 \o Number_A, Str_whatsapp \o Number_B, NoFrom}

\* document ids of the customers subcollection: an auto id, or the phone
AutoDoc(n) == [kind |-> "auto", n |-> n, chars |-> <<>>]
PhoneDoc(phone) == [kind |-> "phone", n |-> 0, chars |-> phone]

\* users/{artisan_id}/customers/{id}
CustomerPath(artisan_id, id) == [artisan_id |-> artisan_id, id |-> id]

\* .where('phone_number', '==', request.phone_number).limit(1).stream()
existing_customers(artisan_id, phone_number) ==
    {d \in DOMAIN customers :
        d.artisan_id = artisan_id /\ customers[d].phone_number = phone_number}

\* the call is over with this answer
Answered(k, c, status, detail) ==
    calls' = [calls EXCEPT ![k] =
                [c EXCEPT !.pc = "done", !.status = status, !.detail = detail]]

\* with one worker a handler runs from its first store call to its answer
\* before another one starts
MayStart(k) ==
    /\ calls[k].pc = "idle"
    /\ ~mode.concurrent => \A j \in Calls : calls[j].pc # "checked"

\* add_customer, up to the query for a customer with this phone number
AddCustomerCheck(k) ==
    /\ MayStart(k)
    /\ \E artisan_id \in ContactArtisans, raw \in RequestPhones :
        LET v == validate_phone(raw)
            c == [calls[k] EXCEPT !.route = "add_customer",
                                  !.artisan_id = artisan_id, !.phone = v.value]
        IN  IF v.raised THEN Answered(k, c, 422, "phone_too_short")
            ELSE IF artisan_id \notin users
            THEN Answered(k, c, 404, "artisan_not_found")
            ELSE IF existing_customers(artisan_id, v.value) # {}
            THEN Answered(k, c, 400, "already_exists")
            ELSE calls' = [calls EXCEPT ![k] = [c EXCEPT !.pc = "checked"]]
    /\ UNCHANGED <<users, customers, shares, outbox, contact_seq, twilio_client>>
    /\ UNCHANGED <<flowVars, helperVars, bulkVars>>

\* add_customer: the new document under an auto id, and the answer
AddCustomerSet(k) ==
    /\ calls[k].pc = "checked"
    /\ calls[k].route = "add_customer"
    /\ contact_seq' = auto_id(contact_seq)
    /\ \E outcome \in {"ok", "set_error"} :
        LET c == [calls[k] EXCEPT !.sets = @ + 1]
            id == AutoDoc(contact_seq')
            customer_data ==
                [id |-> id, artisan_id |-> c.artisan_id, name |-> "given",
                 phone_number |-> c.phone, message_count |-> 0, total_orders |-> 0]
        IN  IF outcome = "ok"
            THEN /\ customers' = (CustomerPath(c.artisan_id, id) :> customer_data) @@ customers
                 /\ Answered(k, c, 200, "")
            ELSE /\ UNCHANGED customers
                 /\ Answered(k, c, 500, outcome)
    /\ UNCHANGED <<users, shares, outbox, twilio_client>>
    /\ UNCHANGED <<flowVars, helperVars, bulkVars>>

\* twilio_webhook, up to the read of the document named by the phone number
TwilioWebhookGet(k) ==
    /\ MayStart(k)
    /\ \E from_number \in FromNumbers :
        LET phone == webhook_phone(from_number)
            c == [calls[k] EXCEPT !.route = "twilio_webhook",
                                  !.artisan_id = test_artisan, !.phone = phone]
        IN  IF from_number = NoFrom
            THEN Answered(k, [c EXCEPT !.phone = <<>>], 200, "missing_phone")
            ELSE calls' = [calls EXCEPT ![k] =
                    [c EXCEPT !.pc = "checked",
                              !.exists = CustomerPath(test_artisan, PhoneDoc(phone))
                                            \in DOMAIN customers]]
    /\ UNCHANGED <<users, customers, shares, outbox, contact_seq, twilio_client>>
    /\ UNCHANGED <<flowVars, helperVars, bulkVars>>

\* twilio_webhook: the update of the document that was found, or the new
\* lead; every failure is answered as {"success": False}
TwilioWebhookWrite(k) ==
    /\ calls[k].pc = "checked"
    /\ calls[k].route = "twilio_webhook"
    /\ \E outcome \in {"ok", "store_error"} :
        LET c == calls[k]
            path == CustomerPath(c.artisan_id, PhoneDoc(c.phone))
            new_customer_data ==
                [id |-> PhoneDoc(c.phone), artisan_id |-> c.artisan_id,
                 name |-> "New Customer", phone_number |-> c.phone,
                 message_count |-> 1, total_orders |-> 0]
        IN  IF outcome # "ok"
            THEN /\ UNCHANGED customers
                 /\ Answered(k, c, 200, outcome)
            ELSE IF c.exists
            THEN /\ customers' = [customers EXCEPT ![path].message_count = @ + 1]
                 /\ Answered(k, c, 200, "")
            ELSE /\ customers' = (path :> new_customer_data) @@ customers
                 /\ Answered(k, [c EXCEPT !.sets = @ + 1], 200, "")
    /\ UNCHANGED <<users, shares, outbox, contact_seq, twilio_client>>
    /\ UNCHANGED <<flowVars, helperVars, bulkVars>>

\* `except Exception as e: raise Exception(f"Error sending WhatsApp: ...")`,
\* the last lines of send_catalog
send_catalog_except(e) == Raise("Exception", e.cause)

\* the two handlers of the /share-whatsapp route
share_whatsapp_except(e) == IF e.type = "ValueError" THEN 404 ELSE 500

\* send_catalog: the client, the artisan, the message through the gateway,
\* the whatsapp_shares document; what it raises, whether the gateway took
\* the message, and what it wrote
send_catalog(artisan_id, raw, outcome) ==
    LET phone_number == send_catalog_phone(raw)
        inner == IF ~twilio_client
                 THEN Raise("ValueError", "client_not_initialized")
                 ELSE IF artisan_id \notin users
                 THEN Raise("ValueError", "artisan_not_found")
                 ELSE IF outcome = "twilio_error"
                 THEN Raise("TwilioRestException", outcome)
                 ELSE IF outcome = "set_error"
                 THEN Raise("GoogleAPIError", outcome)
                 ELSE NoExc
    IN  [exc |-> IF raised(inner) THEN send_catalog_except(inner) ELSE NoExc,
         phone_number |-> phone_number,
         sent |-> twilio_client /\ artisan_id \in users /\ outcome # "twilio_error",
         logged |-> twilio_client /\ artisan_id \in users /\ outcome = "ok",
         message |-> [to |-> Str_whatsapp \o phone_number, artisan_id |-> artisan_id],
         share_data |-> [artisan_id |-> artisan_id, phone_number |-> phone_number]]

SendOutcomes == {"ok", "twilio_error", "set_error"}

\* share_whatsapp: one call of send_catalog and the answer
ShareWhatsApp(k) ==
    /\ MayStart(k)
    /\ \E artisan_id \in ContactArtisans, raw \in RequestPhones,
          outcome \in SendOutcomes :
        LET r == send_catalog(artisan_id, raw, outcome)
            c == [calls[k] EXCEPT !.route = "share_whatsapp",
                                  !.artisan_id = artisan_id, !.phone = r.phone_number]
        IN  /\ outbox' = IF r.sent THEN Append(outbox, r.message) ELSE outbox
            /\ shares' = IF r.logged THEN Append(shares, r.share_data) ELSE shares
            /\ IF raised(r.exc)
               THEN Answered(k, c, share_whatsapp_except(r.exc), r.exc.cause)
               ELSE Answered(k, c, 200, "")
    /\ UNCHANGED <<users, customers, contact_seq, twilio_client>>
    /\ UNCHANGED <<flowVars, helperVars, bulkVars>>

----------------------------------------------------------------------------
(* Bulk sharing: POST /share-whatsapp-bulk and                              *)
(* POST /share-whatsapp-customers                                           *)

\* a customer record without a phone number, and the None of a result entry
NoPhone == <<>>

\* the customers of the artisan when the bulk share starts: two with a
\* phone number, one without
CustomerBook ==
    (CustomerPath(test_artisan, AutoDoc(1)) :>
        [id |-> AutoDoc(1), artisan_id |-> test_artisan, name |-> "Asha",
         phone_number |-> Str_plus91 \o Number_A, message_count |-> 0,
         total_orders |-> 0])
    @@ (CustomerPath(test_artisan, AutoDoc(2)) :>
        [id |-> AutoDoc(2), artisan_id |-> test_artisan, name |-> "Ravi",
         phone_number |-> Str_plus91 \o Number_B, message_count |-> 0,
         total_orders |-> 0])
    @@ (CustomerPath(test_artisan, AutoDoc(3)) :>
        [id |-> AutoDoc(3), artisan_id |-> test_artisan, name |-> "Noor",
         phone_number |-> NoPhone, message_count |-> 0, total_orders |-> 0])

\* the customer ids of a request: the three on record and one that is not
CustomerIds == {AutoDoc(1), AutoDoc(2), AutoDoc(3), AutoDoc(9)}
BulkPhones == {Str_plus91 \o Number_A, Number_B}

\* the lists of at most MaxRecipients recipients
Recipients(S) == UNION {[1..m -> S] : m \in 0..MaxRecipients}

\* a list of results that keeps the successes only
results_without_failures(results, entry) ==
    IF entry.success THEN Append(results, entry) ELSE results

\* results.append({...}), in the try block and in the handler alike
results_append(results, entry) == Append(results, entry)

\* success_count, and the totals of the route's answer
share_totals(results) ==
    LET success_count == Cardinality({k \in 1..Len(results) : results[k].success}) IN
    [total |-> Len(results), sent |-> success_count,
     failed |-> Len(results) - success_count]

\* customer_data.get('name', 'Unknown') if 'customer_data' in locals() else
\* 'Unknown', and the same for the phone number
handler_name(customer_data) ==
    IF customer_data.bound THEN customer_data.name ELSE "Unknown"
handler_phone(customer_data) ==
    IF customer_data.bound THEN customer_data.phone_number ELSE NoPhone

InitBulk ==
    /\ FlowStart
    /\ mode = OneWorker
    /\ DownloadOff
    /\ NameOff
    /\ PriceOff
    /\ GridOff
    /\ PhoneOff
    /\ users \in {{}, {test_artisan}}
    /\ twilio_client \in BOOLEAN
    /\ customers = CustomerBook
    /\ shares = <<>>
    /\ outbox = <<>>
    /\ calls = [k \in Calls |-> IdleCall]
    /\ contact_seq = 0
    /\ bulk = [pc |-> "idle", route |-> "", artisan_id |-> "", inputs |-> <<>>,
               idx |-> 0, results |-> <<>>, customer_data |-> NoCustomerData,
               accepted |-> <<>>, status |-> 0, total |-> 0, sent |-> 0,
               failed |-> 0]

\* share_whatsapp_bulk up to the loop of send_bulk_catalog
BulkStart ==
    /\ bulk.pc = "idle"
    /\ \E phone_numbers \in Recipients(BulkPhones) :
        bulk' = [bulk EXCEPT !.pc = "loop", !.route = "share_whatsapp_bulk",
                             !.artisan_id = test_artisan, !.inputs = phone_numbers]
    /\ UNCHANGED <<flowVars, helperVars, contactVars>>

\* share_whatsapp_by_customers up to the loop of
\* send_bulk_catalog_by_customers: the artisan is looked up outside any try
\* block of the service
CustomersStart ==
    /\ bulk.pc = "idle"
    /\ \E customer_ids \in Recipients(CustomerIds) :
        LET b == [bulk EXCEPT !.route = "share_whatsapp_customers",
                              !.artisan_id = test_artisan, !.inputs = customer_ids]
        IN  IF test_artisan \notin users
            THEN bulk' = [b EXCEPT !.pc = "done",
                            !.status = share_whatsapp_except(
                                          Raise("ValueError", "artisan_not_found"))]
            ELSE bulk' = [b EXCEPT !.pc = "loop"]
    /\ UNCHANGED <<flowVars, helperVars, contactVars>>

\* send_bulk_catalog: one turn of the loop over the phone numbers
BulkSendOne ==
    /\ bulk.pc = "loop"
    /\ bulk.route = "share_whatsapp_bulk"
    /\ bulk.idx < Len(bulk.inputs)
    /\ \E outcome \in SendOutcomes :
        LET phone == bulk.inputs[bulk.idx + 1]
            r == send_catalog(bulk.artisan_id, phone, outcome)
            entry == [recipient |-> phone, customer_name |-> "", phone |-> phone,
                      success |-> ~raised(r.exc), error |-> r.exc.cause]
        IN  /\ outbox' = IF r.sent THEN Append(outbox, r.message) ELSE outbox
            /\ shares' = IF r.logged THEN Append(shares, r.share_data) ELSE shares
            /\ bulk' = [bulk EXCEPT !.idx = @ + 1,
                                    !.results = results_append(@, entry),
                                    !.accepted = Append(@, r.sent)]
    /\ UNCHANGED <<users, customers, calls, contact_seq, twilio_client>>
    /\ UNCHANGED <<flowVars, helperVars>>

\* send_bulk_catalog_by_customers: one turn of the loop over the customer
\* ids.  customer_data is a local of the function: what an earlier turn
\* bound to it is still there when the handler of this turn runs.
CustomerSendOne ==
    /\ bulk.pc = "loop"
    /\ bulk.route = "share_whatsapp_customers"
    /\ bulk.idx < Len(bulk.inputs)
    /\ \E get \in {"ok", "get_error"}, outcome \in SendOutcomes,
          analytics \in {"ok", "update_error"} :
        LET customer_id == bulk.inputs[bulk.idx + 1]
            path == CustomerPath(bulk.artisan_id, customer_id)
            found == get = "ok" /\ path \in DOMAIN customers
            customer_data ==
                IF found
                THEN [bound |-> TRUE, name |-> customers[path].name,
                      phone_number |-> customers[path].phone_number]
                ELSE bulk.customer_data
            sending == found /\ customer_data.phone_number # NoPhone
            r == send_catalog(bulk.artisan_id, customer_data.phone_number, outcome)
            entry ==
                IF get # "ok"
                THEN [recipient |-> customer_id,
                      customer_name |-> handler_name(customer_data),
                      phone |-> handler_phone(customer_data),
                      success |-> FALSE, error |-> get]
                ELSE IF ~found
                THEN [recipient |-> customer_id, customer_name |-> "Unknown",
                      phone |-> NoPhone, success |-> FALSE,
                      error |-> "customer_not_found"]
                ELSE IF ~sending
                THEN [recipient |-> customer_id,
                      customer_name |-> customer_data.name, phone |-> NoPhone,
                      success |-> FALSE, error |-> "no_phone_number"]
                ELSE IF raised(r.exc)
                THEN [recipient |-> customer_id,
                      customer_name |-> handler_name(customer_data),
                      phone |-> handler_phone(customer_data),
                      success |-> FALSE, error |-> r.exc.cause]
                ELSE [recipient |-> customer_id,
                      customer_name |-> customer_data.name,
                      phone |-> customer_data.phone_number,
                      success |-> TRUE, error |-> ""]
        IN  /\ outbox' = IF sending /\ r.sent THEN Append(outbox, r.message) ELSE outbox
            /\ shares' = IF sending /\ r.logged
                         THEN Append(shares, r.share_data) ELSE shares
            /\ customers' = IF sending /\ ~raised(r.exc) /\ analytics = "ok"
                            THEN [customers EXCEPT ![path].total_orders = @ + 1]
                            ELSE customers
            /\ bulk' = [bulk EXCEPT !.idx = @ + 1,
                                    !.results = results_append(@, entry),
                                    !.customer_data = customer_data,
                                    !.accepted = Append(@, sending /\ r.sent)]
    /\ UNCHANGED <<users, calls, contact_seq, twilio_client>>
    /\ UNCHANGED <<flowVars, helperVars>>

\* the answer of either route: the totals over the results
BulkAnswer ==
    /\ bulk.pc = "loop"
    /\ bulk.idx = Len(bulk.inputs)
    /\ LET t == share_totals(bulk.results) IN
       bulk' = [bulk EXCEPT !.pc = "done", !.status = 200, !.total = t.total,
                            !.sent = t.sent, !.failed = t.failed]
    /\ UNCHANGED <<flowVars, helperVars, contactVars>>

NextBulk ==
    \/ BulkStart
    \/ CustomersStart
    \/ BulkSendOne
    \/ CustomerSendOne
    \/ BulkAnswer

SpecBulk == InitBulk /\ [][NextBulk]_vars

\* phone numbers as a client may write them: with or without the gateway
\* prefix, a plus sign or the country code, and leading zeros
PhonePrefixes == {<<>>, Str_whatsapp}
CountryCodes == {<<>>, Str_plus, Str_plus91}
LeadingZeros == {<<>>, <<"0">>, <<"0", "0">>}
LocalNumbers == {Number_A, Number_B, <<"1", "2", "3">>}
PhoneInputs ==
    {a \o b \o c \o d : a \in PhonePrefixes, b \in CountryCodes,
                         c \in LeadingZeros, d \in LocalNumbers}

InitPhone ==
    /\ FlowStart
    /\ mode = OneWorker
    /\ DownloadOff
    /\ NameOff
    /\ PriceOff
    /\ GridOff
    /\ ContactsOff
    /\ BulkOff
    /\ \E p \in PhoneInputs :
        phoneCall = [phase |-> "ready", phone_number |-> p, to |-> <<>>,
                     stored |-> <<>>]

\* send_catalog: the destination of messages.create and the phone_number of
\* the whatsapp_shares record
CallSendCatalogPhone ==
    /\ phoneCall.phase = "ready"
    /\ LET phone_number == send_catalog_phone(phoneCall.phone_number) IN
       phoneCall' = [phoneCall EXCEPT !.phase = "returned",
                                     !.to = Str_whatsapp \o phone_number,
                                     !.stored = phone_number]
    /\ UNCHANGED <<flowVars, dlCall, nameCall, priceCall, gridCall, contactVars, bulkVars>>

NextPhone == CallSendCatalogPhone

SpecPhone == InitPhone /\ [][NextPhone]_vars

\* the users collection and the gateway credentials are as the deployment
\* has them; the routes are served by one worker or by several
InitContacts ==
    /\ FlowStart
    /\ mode \in {OneWorker, ManyWorkers}
    /\ DownloadOff
    /\ NameOff
    /\ PriceOff
    /\ GridOff
    /\ PhoneOff
    /\ users \in SUBSET ContactArtisans
    /\ twilio_client \in BOOLEAN
    /\ NoContacts
    /\ BulkOff

NextContacts ==
    \E k \in Calls :
        \/ AddCustomerCheck(k)
        \/ AddCustomerSet(k)
        \/ TwilioWebhookGet(k)
        \/ TwilioWebhookWrite(k)
        \/ ShareWhatsApp(k)

SpecContacts == InitContacts /\ [][NextContacts]_vars

----------------------------------------------------------------------------
(* Claims *)

Responded(r) == inv[r].pc = "responded"
InFlight(r) == inv[r].pc \in {"render", "save"}
ProfileMissing(r) == inv[r].profile = "missing"
EmptyList(r) == inv[r].profile = "found" /\ inv[r].n = 0

\* C1: a generate request (pdf or image) for an artisan that has no profile
\* document is answered with HTTP 404, not with HTTP 500.
C1_MissingArtisanAnswered404 ==
    \A r \in Invs :
        (Responded(r) /\ ProfileMissing(r)) => response[r].status = 404

\* C2: a generate request for an artisan whose product list is empty is
\* answered with a client-side bad-input status, which is neither 404 nor a
\* server error.
C2_EmptyListAnsweredBadInput ==
    \A r \in Invs :
        (Responded(r) /\ EmptyList(r)) =>
            (response[r].status \in 400..499 /\ response[r].status # 404)

\* C3: the step that fails a generate request because the artisan is missing
\* or the product list is empty leaves the bucket and the 'catalogs'
\* collection as they were, and the request has made no upload and no
\* metadata write before it, in either engine.
C3_FailedAssemblyTouchesNoStore ==
    [][\A r \in Invs :
        (~Responded(r) /\ Responded(r)' /\ (ProfileMissing(r)' \/ EmptyList(r)'))
            => /\ blobs' = blobs
               /\ catalogs' = catalogs
               /\ inv'[r].uploads = 0
               /\ inv'[r].saves = 0
               /\ \A f \in DOMAIN blobs' : blobs'[f].rendered_by # r]_vars

\* C3 witness: a request failed on an empty list while the stores held the
\* catalog of an earlier request.
C3_Witness ==
    /\ catalogs # <<>>
    /\ \E r \in Invs : Responded(r) /\ EmptyList(r) /\ response[r].status # 200

\* C4: a generate request that succeeds over a list of N >= 1 products
\* returns product_count = N and writes a 'catalogs' document with
\* product_count = N, whether or not the pictures of the products were
\* fetched.
C4_ProductCountIsListLength ==
    \A r \in Invs :
        response[r].status = 200 =>
            /\ inv[r].n >= 1
            /\ response[r].body.product_count = inv[r].n
            /\ response[r].body.catalog_id \in DOMAIN catalogs
            /\ catalogs[response[r].body.catalog_id].product_count = inv[r].n

\* the artifact of a request that succeeded
ArtifactOf(r) == blobs[catalogs[response[r].body.catalog_id].storage_path]

\* C4 witness: a success over three products, one picture at least missing.
C4_Witness ==
    \E r \in Invs :
        /\ response[r].status = 200
        /\ response[r].body.product_count = 3
        /\ ~ArtifactOf(r).all_pictures

C6_UrlCellHasPictureOrPlaceholder ==
    \A r \in Invs :
        (InFlight(r) /\ inv[r].catalog_type = "image") =>
            \A k \in 1..Len(inv[r].cells) :
                inv[r].cells[k].has_url =>
                    inv[r].cells[k].picture \in {"image", "placeholder"}

\* the declared content types that name an image
ImageContentTypes == {Str_image_png, Str_IMAGE_JPEG}

\* the request came back with a success status and an image content type
ImageResponse(http) ==
    /\ http.kind = "Response"
    /\ http.status \in 200..399
    /\ http.content_type.present
    /\ http.content_type.value \in ImageContentTypes

\* C7: download_image never raises; it returns the bytes of the response
\* when the request succeeded and the declared content type contains
\* 'image' (in any letter case), and None for every other outcome of the
\* request.
C7_DownloadNeverRaises ==
    /\ dlCall.phase # "raised"
    /\ dlCall.phase = "returned" =>
        /\ ~dlCall.raised
        /\ IF ImageResponse(dlCall.http)
           THEN dlCall.value = SomeBytes(dlCall.http.content)
           ELSE dlCall.value = None

\* C7 witness: None was returned for an exception that is not of the
\* requests library.
C7_Witness ==
    /\ dlCall.phase = "returned"
    /\ dlCall.http.kind = "OtherError"
    /\ dlCall.value = None

\* the least k with 2k >= n
CeilHalf(n) == CHOOSE k \in 0..n : 2 * k >= n /\ 2 * (k - 1) < n

\* C8: for N >= 1 products the canvas of the image engine is 1200 wide and
\* 150 + ceil(N/2) * 450 high: two rows for N = 3, N/2 rows for an even N.
C8_CanvasHeight ==
    \A r \in Invs :
        (InFlight(r) /\ inv[r].catalog_type = "image") =>
            LET N == Len(inv[r].products) IN
            /\ N >= 1
            /\ inv[r].canvas.width = 1200
            /\ inv[r].canvas.height = 150 + (CeilHalf(N) * 450)
            /\ N = 3 => inv[r].canvas.height = 150 + (2 * 450)
            /\ N % 2 = 0 => inv[r].canvas.height = 150 + ((N \div 2) * 450)

\* C8 witness: the canvas of three products.
C8_Witness ==
    \E r \in Invs :
        /\ InFlight(r) /\ inv[r].catalog_type = "image"
        /\ Len(inv[r].products) = 3
        /\ inv[r].canvas.height = 1050

\* C9: in the image engine the k-th product of the list (i = k - 1) is drawn
\* at col = i % 2, row = i // 2, whatever became of its picture and of the
\* pictures before it.
C9_CellPositionFromIndex ==
    \A r \in Invs :
        (InFlight(r) /\ inv[r].catalog_type = "image") =>
            \A k \in 1..Len(inv[r].cells) :
                LET i == k - 1
                    c == inv[r].cells[k]
                IN  /\ c.col = i % 2
                    /\ c.row = i \div 2
                    /\ c.x_pos = 50 + (c.col * 550)
                    /\ c.y_pos = 180 + (c.row * 450)

\* C9 witness: the third product sits at col 0, row 1 with its picture, the
\* first without picture after a failed fetch, the second with a placeholder.
C9_Witness ==
    \E r \in Invs :
        /\ InFlight(r) /\ inv[r].catalog_type = "image"
        /\ Len(inv[r].cells) = 3
        /\ inv[r].cells[1].has_url /\ inv[r].cells[1].picture = "none"
        /\ inv[r].cells[2].picture = "placeholder"
        /\ inv[r].cells[3].picture = "image"
        /\ inv[r].cells[3].col = 0 /\ inv[r].cells[3].row = 1

\* C10: the image engine shows a name of more than 35 characters as its
\* first 35 characters followed by '...', and a name of 35 characters or
\* fewer as it is.
C10_NameTruncation ==
    (nameCall.phase = "returned" /\ nameCall.name.present) =>
        LET nm == nameCall.name.value IN
        IF Len(nm) > 35
        THEN /\ Len(nameCall.shown) = 38
             /\ \A k \in 1..35 : nameCall.shown[k] = nm[k]
             /\ \A k \in 36..38 : nameCall.shown[k] = "."
        ELSE nameCall.shown = nm

\* C10 witness: a name of 36 characters was cut.
C10_Witness ==
    /\ nameCall.phase = "returned"
    /\ nameCall.name.present
    /\ Len(nameCall.name.value) = 36
    /\ Len(nameCall.shown) = 38

\* the number a character stands for, and the number a string of digits
\* stands for
DigitValue(c) == (CHOOSE k \in 1..10 : Digits[k] = c) - 1
IsDigit(c) == \E k \in 1..10 : Digits[k] = c
RECURSIVE NumberOf(_)
NumberOf(ds) ==
    IF Len(ds) = 0 THEN 0
    ELSE (10 * NumberOf(SubSeq(ds, 1, Len(ds) - 1))) + DigitValue(ds[Len(ds)])

\* s without its commas
RECURSIVE WithoutCommas(_)
WithoutCommas(t) ==
    IF Len(t) = 0 THEN <<>>
    ELSE IF t[1] = "," THEN WithoutCommas(Tail(t))
    ELSE <<t[1]>> \o WithoutCommas(Tail(t))

\* t is the amount of `cents` hundredths: an integer part with a comma
\* before every group of three digits, counted from the right, and no
\* other comma; a point; two decimals
IsCurrencyString(t, cents) ==
    /\ Len(t) >= 4
    /\ t[Len(t) - 2] = "."
    /\ IsDigit(t[Len(t) - 1]) /\ IsDigit(t[Len(t)])
    /\ (10 * DigitValue(t[Len(t) - 1])) + DigitValue(t[Len(t)]) = cents % 100
    /\ LET whole == SubSeq(t, 1, Len(t) - 3) IN
       /\ \A k \in 1..Len(whole) :
            LET from_right == Len(whole) - k + 1 IN
            IF from_right % 4 = 0 THEN whole[k] = "," ELSE IsDigit(whole[k])
       /\ whole[1] # ","
       /\ (whole[1] = "0" => Len(whole) = 1)
       /\ NumberOf(WithoutCommas(whole)) = cents \div 100

\* C11: for a price of any number of hundredths both engines print the
\* currency symbol followed by the amount with the integer part grouped in
\* thousands by commas, a point and two decimals (1234.5 gives 1,234.50);
\* the PDF line differs from the image line only by its 'Price: ' label; a
\* product without price prints 0.00.
C11_PriceFormat ==
    priceCall.phase = "returned" =>
        LET cents == IF priceCall.price.present THEN priceCall.price.cents ELSE 0
            shown == priceCall.image_text
        IN  /\ Len(shown) >= 5
            /\ shown[1] = "rupee_sign"
            /\ IsCurrencyString(Tail(shown), cents)
            /\ priceCall.pdf_text = <<"P", "r", "i", "c", "e", ":", " ">> \o shown
            /\ cents = 123450 =>
                Tail(shown) = <<"1", ",", "2", "3", "4", ".", "5", "0">>
            /\ ~priceCall.price.present =>
                Tail(shown) = <<"0", ".", "0", "0">>

\* C11 witness: 1234.5 was printed as 1,234.50 by both engines.
C11_Witness ==
    /\ priceCall.phase = "returned"
    /\ priceCall.price = HasPrice(123450)
    /\ priceCall.image_text = <<"rupee_sign", "1", ",", "2", "3", "4", ".", "5", "0">>
    /\ Len(priceCall.pdf_text) = 16

\* C12: however the store calls of concurrent generate requests interleave,
\* also for one artisan and one format, an upload never lands on a path
\* that holds a blob (every blob stays as it was uploaded) and two requests
\* never hold the same storage path; uuid4 is taken to return distinct
\* values.
C12_UploadsNeverCollide ==
    [][/\ \A f \in DOMAIN blobs : f \in DOMAIN blobs' /\ blobs'[f] = blobs[f]
       /\ \A r, q \in Invs :
            (r # q /\ inv'[r].filename # <<>> /\ inv'[q].filename # <<>>)
                => inv'[r].filename # inv'[q].filename]_vars

\* C12 witness: two requests for the same artisan and format are both
\* between their upload and their metadata write.
C12_Witness ==
    \E r, q \in Invs :
        /\ r # q
        /\ inv[r].pc = "save" /\ inv[q].pc = "save"
        /\ inv[r].artisan_id = inv[q].artisan_id
        /\ inv[r].catalog_type = inv[q].catalog_type
        /\ Cardinality(DOMAIN blobs) = 2

\* the request that was answered with the id of this record
WriterOf(c) ==
    {r \in Invs : response[r].status = 200 /\ response[r].body.catalog_id = c.id}

\* C13: for every record of 'catalogs', of either format, the blob at the
\* record's storage_path is the one rendered and uploaded by the request
\* that wrote the record (its renderer, its content type and its number of
\* products), and no two records name the same storage_path.
C13_PathMapsBackToUpload ==
    /\ \A i \in DOMAIN catalogs :
        LET c == catalogs[i] IN
        /\ c.storage_path \in DOMAIN blobs
        /\ \E r \in Invs :
            /\ WriterOf(c) = {r}
            /\ blobs[c.storage_path].rendered_by = r
            /\ blobs[c.storage_path].content_type = MimeType(c.type)
            /\ blobs[c.storage_path].products = inv[r].n
    /\ \A i, j \in DOMAIN catalogs :
        i # j => catalogs[i].storage_path # catalogs[j].storage_path

\* C13 witness: the same artisan has one record of each format.
C13_Witness ==
    \E i, j \in DOMAIN catalogs :
        /\ catalogs[i].type = "pdf" /\ catalogs[j].type = "image"
        /\ catalogs[i].artisan_id = catalogs[j].artisan_id

\* C14: a generate request that succeeds has uploaded one blob and appended
\* one record; no step of any request changes or removes a record or a blob
\* that exists, so the records only grow and keep their field values.
C14_OneArtifactPerSuccess ==
    [][/\ \A i \in DOMAIN catalogs :
            i \in DOMAIN catalogs' /\ catalogs'[i] = catalogs[i]
       /\ \A f \in DOMAIN blobs :
            f \in DOMAIN blobs' /\ blobs'[f] = blobs[f]
       /\ \A r \in Invs :
            (response[r].status # 200 /\ response'[r].status = 200) =>
                /\ inv'[r].uploads = 1
                /\ inv'[r].saves = 1
                /\ Cardinality(DOMAIN catalogs') = Cardinality(DOMAIN catalogs) + 1
                /\ Cardinality({f \in DOMAIN blobs' : blobs'[f].rendered_by = r}) = 1
                /\ Cardinality({i \in DOMAIN catalogs' :
                        catalogs'[i].id = response'[r].body.catalog_id}) = 1]_vars

\* C14 witness: a second request has succeeded after the first one's record
\* was written.
C14_Witness ==
    /\ \A r \in Invs : response[r].status = 200 /\ response[r].body.success
    /\ Cardinality(DOMAIN catalogs) = 2
    /\ Cardinality(DOMAIN blobs) = 2

PublicationErrors == {"upload_error", "make_public_error", "set_error"}

\* C15: a generate request whose upload or metadata write failed is answered
\* 500 without a result, and no request uploads or writes its record more
\* than once: the step after a failed store call is the response, and a
\* request is past its upload only when the one upload it made went through.
C15_PublicationErrorIsFatal ==
    \A r \in Invs :
        /\ inv[r].uploads <= 1
        /\ inv[r].saves <= 1
        /\ inv[r].saves = 1 => inv[r].uploads = 1
        /\ inv[r].pc = "save" =>
            /\ inv[r].uploads = 1
            /\ inv[r].filename \in DOMAIN blobs
        /\ (Responded(r) /\ response[r].detail \in PublicationErrors) =>
            /\ response[r].status = 500
            /\ ~response[r].body.success
            /\ \A i \in DOMAIN catalogs : blobs[catalogs[i].storage_path].rendered_by # r
            /\ inv[r].saves = IF response[r].detail = "set_error" THEN 1 ELSE 0

\* C15 witness: one request failed at its upload and another at its
\* metadata write.
C15_Witness ==
    \E r, q \in Invs :
        /\ Responded(r) /\ response[r].detail = "upload_error"
        /\ response[r].status = 500 /\ inv[r].uploads = 1
        /\ Responded(q) /\ response[q].detail = "set_error"
        /\ response[q].status = 500 /\ inv[q].saves = 1

\* C16: a generate request whose catalog_type is neither 'pdf' nor 'image'
\* is answered with HTTP 400, with no engine called and no store touched.
C16_InvalidTypeAnswered400 ==
    \A r \in Invs :
        (Responded(r) /\ inv[r].catalog_type \notin {"pdf", "image"}) =>
            /\ response[r].status = 400
            /\ inv[r].uploads = 0 /\ inv[r].saves = 0 /\ inv[r].profile = ""

Done(k) == calls[k].pc = "done"

\* C17: whatever add_customer requests and webhook deliveries were handled,
\* in whatever order, no two customer records of one artisan carry the same
\* phone_number; and an add_customer that was answered 400 for a phone
\* number already on record has written no document.
C17_NoDuplicatePhone ==
    /\ \A d, e \in DOMAIN customers :
        (d # e /\ d.artisan_id = e.artisan_id) =>
            customers[d].phone_number # customers[e].phone_number
    /\ \A k \in Calls :
        (Done(k) /\ calls[k].route = "add_customer" /\ calls[k].status = 400) =>
            calls[k].sets = 0

\* C18: a share request for an artisan without a user document is answered
\* 404, sends no message and writes no whatsapp_shares record.
C18_ShareMissingArtisan404 ==
    \A k \in Calls :
        (Done(k) /\ calls[k].route = "share_whatsapp"
            /\ twilio_client /\ calls[k].artisan_id \notin users) =>
            /\ calls[k].status = 404
            /\ \A m \in 1..Len(outbox) : outbox[m].artisan_id # calls[k].artisan_id
            /\ \A m \in 1..Len(shares) : shares[m].artisan_id # calls[k].artisan_id

\* the blobs a request uploaded that no record names
Orphans(r) ==
    {f \in DOMAIN blobs :
        /\ blobs[f].rendered_by = r
        /\ \A i \in DOMAIN catalogs : catalogs[i].storage_path # f}

\* C19: every record names a storage_path whose blob is uploaded and public
\* (the upload is over before the record is written, and a request that is
\* about to write its record holds such a path); a request whose metadata
\* write failed after its upload has left its blob in the bucket with no
\* record for it.
C19_RecordAfterUploadNoRollback ==
    /\ \A i \in DOMAIN catalogs :
        /\ catalogs[i].storage_path \in DOMAIN blobs
        /\ blobs[catalogs[i].storage_path].public
    /\ \A r \in Invs :
        /\ inv[r].pc = "save" =>
            inv[r].filename \in DOMAIN blobs /\ blobs[inv[r].filename].public
        /\ (Responded(r) /\ response[r].detail = "set_error") =>
            /\ Cardinality(Orphans(r)) = 1
            /\ \A f \in Orphans(r) : blobs[f].public

\* C19 witness: one request wrote its record, the other failed at its
\* metadata write and its blob is in the bucket without a record.
C19_Witness ==
    \E r, q \in Invs :
        /\ Responded(r) /\ response[r].status = 200
        /\ Responded(q) /\ response[q].detail = "set_error"
        /\ Orphans(q) # {}
        /\ Cardinality(DOMAIN blobs) = 2 /\ Cardinality(DOMAIN catalogs) = 1

\* C20: in both engines the fetches of one request, in the order they were
\* issued, run through the product list in increasing position: one fetch
\* for each product passed that has an image URL, none for a product
\* without one, none twice, and each step of the loop issues at most one.
C20_FetchesInListOrder ==
    \A r \in Invs :
        InFlight(r) =>
            LET f == inv[r].fetched IN
            /\ \A a \in 1..Len(f) :
                /\ f[a] \in 1..inv[r].idx
                /\ inv[r].products[f[a]].image_url # NoUrl
            /\ \A a, b \in 1..Len(f) : a < b => f[a] < f[b]
            /\ \A k \in 1..inv[r].idx :
                inv[r].products[k].image_url # NoUrl => \E a \in 1..Len(f) : f[a] = k

\* C20 witness: each engine has run through a list in which a product
\* without an image URL stands between two products that have one.
C20_Witness ==
    \E r, q \in Invs :
        /\ inv[r].catalog_type = "pdf" /\ inv[q].catalog_type = "image"
        /\ inv[r].n = 3 /\ response[r].status = 200
        /\ inv[q].pc = "render" /\ inv[q].idx = 3 /\ inv[q].fetched = <<1, 3>>

\* the rectangle lies on the canvas, under the header band
OnCanvasBelowHeader(rect, canvas) ==
    /\ 0 <= rect.x0 /\ rect.x0 <= rect.x1 /\ rect.x1 <= canvas.width - 1
    /\ header_height < rect.y0 /\ rect.y0 <= rect.y1 /\ rect.y1 <= canvas.height - 1

\* the two rectangles share no pixel
Apart(a, b) ==
    \/ a.x1 < b.x0 \/ b.x1 < a.x0
    \/ a.y1 < b.y0 \/ b.y1 < a.y0

\* C21: in the image engine, for every product count and every product of
\* the grid, the card, the pasted picture (at most 280 pixels on a side) and
\* the placeholder lie on the canvas under the header band, inside the
\* product's card, and the cards of two products share no pixel.
C21_CardsOnCanvasAndApart ==
    gridCall.phase = "returned" =>
        /\ \A k \in 1..gridCall.n :
            LET card == gridCall.cards[k]
                pic == gridCall.pictures[k]
                ph == gridCall.placeholders[k]
            IN  /\ OnCanvasBelowHeader(card, gridCall.canvas)
                /\ OnCanvasBelowHeader(pic, gridCall.canvas)
                /\ OnCanvasBelowHeader(ph, gridCall.canvas)
                /\ pic.x1 - pic.x0 < thumb_side /\ pic.y1 - pic.y0 < thumb_side
                /\ card.x0 <= pic.x0 /\ pic.x1 <= card.x1
                /\ card.y0 <= pic.y0 /\ pic.y1 <= card.y1
                /\ card.x0 <= ph.x0 /\ ph.x1 <= card.x1
                /\ card.y0 <= ph.y0 /\ ph.y1 <= card.y1
        /\ \A k, j \in 1..gridCall.n :
            k # j => Apart(gridCall.cards[k], gridCall.cards[j])

\* C21 witness: a grid of several rows whose last row holds one product,
\* with a picture that had to be scaled down.
C21_Witness ==
    /\ gridCall.phase = "returned"
    /\ gridCall.n = 5
    /\ gridCall.size = [width |-> 1000, height |-> 281]
    /\ Len(gridCall.cards) = 5
    /\ gridCall.pictures[5].x1 - gridCall.pictures[5].x0 = thumb_side - 1

\* the places of s where sub starts
Occurrences(sub, s) ==
    {k \in 1..(Len(s) - Len(sub) + 1) : SubSeq(s, k, k + Len(sub) - 1) = sub}

\* C22: for every phone number given to send_catalog, the destination is
\* 'whatsapp:' followed by a number that starts with '+', a 'whatsapp:'
\* prefix of the input is removed, so the destination holds 'whatsapp:'
\* once and the stored phone_number does not hold it.
C22_DestinationHasOnePrefix ==
    phoneCall.phase = "returned" =>
        /\ startswith(phoneCall.to, Str_whatsapp \o Str_plus)
        /\ Cardinality(Occurrences(Str_whatsapp, phoneCall.to)) = 1
        /\ Occurrences(Str_whatsapp, phoneCall.stored) = {}

\* C23: with the artisan on record, either bulk route answers with one
\* result per recipient of the request, in the order of the request,
\* whatever failed on the way (an unknown customer, a missing phone number,
\* the gateway, a store); its total is the number of recipients and
\* total = sent + failed.
C23_OneResultPerRecipient ==
    (bulk.artisan_id \in users /\ bulk.pc \in {"loop", "done"}) =>
        /\ Len(bulk.results) = bulk.idx
        /\ \A k \in 1..Len(bulk.results) : bulk.results[k].recipient = bulk.inputs[k]
        /\ bulk.pc = "done" =>
            /\ bulk.status = 200
            /\ Len(bulk.results) = Len(bulk.inputs)
            /\ bulk.total = Len(bulk.inputs)
            /\ bulk.total = bulk.sent + bulk.failed
            /\ bulk.sent = Cardinality({k \in 1..Len(bulk.results) :
                                            bulk.results[k].success})

\* C23 witness: a bulk share by customer ids is answered after a failure
\* for its first recipient and a success for a later one.
C23_Witness ==
    /\ bulk.pc = "done" /\ bulk.route = "share_whatsapp_customers"
    /\ bulk.artisan_id \in users
    /\ Len(bulk.inputs) = 3
    /\ ~bulk.results[1].success /\ bulk.results[3].success
    /\ bulk.total = 3 /\ bulk.sent >= 1 /\ bulk.failed >= 1

\* C24: every result of a bulk share by customer ids carries the name and
\* the phone number of the customer its customer_id names, or 'Unknown' and
\* no phone when that record could not be read; never those of another
\* customer.
C24_EntryNamesItsOwnCustomer ==
    bulk.route = "share_whatsapp_customers" =>
        \A k \in 1..Len(bulk.results) :
            LET e == bulk.results[k]
                path == CustomerPath(bulk.artisan_id, e.recipient)
            IN  \/ e.customer_name = "Unknown" /\ e.phone = NoPhone
                \/ /\ path \in DOMAIN customers
                   /\ e.customer_name = customers[path].name
                   /\ e.phone \in {customers[path].phone_number, NoPhone}

\* C26: in a bulk share an entry says success exactly when the gateway took
\* a message for that recipient, so 'sent' is the number of messages handed
\* to the gateway.
C26_SuccessIffGatewayAccepted ==
    /\ \A k \in 1..Len(bulk.results) : bulk.results[k].success = bulk.accepted[k]
    /\ bulk.pc = "done" /\ bulk.status = 200 => bulk.sent = Len(outbox)

\* the webhook deliveries from this phone that were answered with success
Delivered(phone) ==
    {k \in Calls : /\ Done(k) /\ calls[k].route = "twilio_webhook"
                   /\ calls[k].detail = "" /\ calls[k].phone = phone}

C27_ReturnedBytesDecode ==
    (dlCall.phase = "returned" /\ ~dlCall.value.none) =>
        decodable(dlCall.value.bytes)

====
